---- MODULE Spec2Model ----
(***************************************************************************)
(* Model of scripts/codex-config.py: the reversible merge of a repo TOML   *)
(* document into a target TOML document (install) and its rollback from    *)
(* the recorded state file (remove).                                       *)
(*                                                                         *)
(* A Python value is a record [k, v, m]: k = "s" for a scalar with value v,*)
(* k = "t" for a dict with mapping m (a function from keys to values), and *)
(* k = "n" for Python's None.  Scalars are drawn from the integers, on     *)
(* which Python's == is plain equality; on this value domain dump_toml     *)
(* followed by tomllib.loads, and json.dumps followed by json.loads, give  *)
(* back the same tree, so a file is modelled by the tree it holds plus its *)
(* header lines.  Dicts iterate in document order, which is KeyOrder.      *)
(***************************************************************************)
EXTENDS Integers, Sequences, FiniteSets, TLC

\* Scalars are the integers 1..MaxVal.
MaxVal == 2
\* The user edits the target document at most MaxEdits times, each time
\* changing any number of its leaves.
MaxEdits == 1
\* At most MaxInstalls install invocations and MaxRemoves remove invocations.
MaxInstalls == 2
MaxRemoves == 2

EmptyMap == [x \in {} |-> 0]
Scalar(n) == [k |-> "s", v |-> n, m |-> EmptyMap]
Table(f) == [k |-> "t", v |-> 0, m |-> f]
None == [k |-> "n", v |-> 0, m |-> EmptyMap]
EmptyDict == Table(EmptyMap)

KeyOrder == <<"a", "b", "c", "x", "y", "z">>

is_dict(value) == value.k = "t"

\* key in d, for a dict d
Has(d, key) == key \in DOMAIN d.m
\* d[key] = value
Put(d, key, value) ==
  Table([x \in (DOMAIN d.m) \cup {key} |-> IF x = key THEN value ELSE d.m[x]])
\* del d[key]
Del(d, key) == Table([x \in (DOMAIN d.m) \ {key} |-> d.m[x]])

RECURSIVE KeysFrom(_, _)
KeysFrom(d, i) ==
  IF i > Len(KeyOrder) THEN <<>>
  ELSE (IF Has(d, KeyOrder[i]) THEN <<KeyOrder[i]>> ELSE <<>>) \o KeysFrom(d, i + 1)
\* the keys of dict d in iteration order
Keys(d) == KeysFrom(d, 1)

(***************************************************************************)
(* merge_dicts                                                             *)
(***************************************************************************)
RECURSIVE merge_dicts(_, _)
\* merge_dicts with the base value kept where both hold the key
merge_dicts_base_wins(base, overlay) ==
  Table([key \in (DOMAIN base.m) \cup (DOMAIN overlay.m) |->
    IF key \in DOMAIN base.m
    THEN IF key \in DOMAIN overlay.m /\ is_dict(base.m[key]) /\ is_dict(overlay.m[key])
         THEN merge_dicts(base.m[key], overlay.m[key])
         ELSE base.m[key]
    ELSE overlay.m[key]])

merge_dicts(base, overlay) ==
  Table([key \in (DOMAIN base.m) \cup (DOMAIN overlay.m) |->
    IF key \in DOMAIN base.m
    THEN IF key \in DOMAIN overlay.m
         THEN IF is_dict(base.m[key]) /\ is_dict(overlay.m[key])
              THEN merge_dicts(base.m[key], overlay.m[key])
              ELSE overlay.m[key]
         ELSE base.m[key]
    ELSE overlay.m[key]])

(***************************************************************************)
(* collect_additions, collect_changes.  The Python functions append to the *)
(* lists they are handed; here they return what they append, in order.     *)
(***************************************************************************)
RECURSIVE collect_additions(_, _)
RECURSIVE AdditionsOfKeys(_, _, _)
AdditionsOfKeys(path, repo_val, keys) ==
  IF keys = <<>> THEN <<>>
  ELSE collect_additions(Append(path, Head(keys)), repo_val.m[Head(keys)])
         \o AdditionsOfKeys(path, repo_val, Tail(keys))

collect_additions(path, repo_val) ==
  IF is_dict(repo_val)
  THEN AdditionsOfKeys(path, repo_val, Keys(repo_val))
  ELSE << [path |-> path, repo |-> repo_val] >>

NoChanges == [additions |-> <<>>, overrides |-> <<>>]
Join(c1, c2) == [additions |-> c1.additions \o c2.additions,
                 overrides |-> c1.overrides \o c2.overrides]
\* OneOverride recording the leaves of the repo value as additions instead
LeavesAsAdditions(path, existing_val, repo_val) ==
  [additions |-> collect_additions(path, repo_val), overrides |-> <<>>]

\* lines 92, 105, 110: overrides.append(...)
OneOverride(path, existing_val, repo_val) ==
  [additions |-> <<>>,
   overrides |-> << [path |-> path, previous |-> existing_val, repo |-> repo_val] >>]

RECURSIVE collect_changes(_, _, _, _)
RECURSIVE ChangesOfKeys(_, _, _, _)
ChangesOfKeys(path, repo_val, existing_val, keys) ==
  IF keys = <<>> THEN NoChanges
  ELSE LET key == Head(keys)
           here == IF Has(existing_val, key)
                   THEN collect_changes(Append(path, key), repo_val.m[key],
                                        existing_val.m[key], TRUE)
                   ELSE [additions |-> collect_additions(Append(path, key), repo_val.m[key]),
                         overrides |-> <<>>]
       IN Join(here, ChangesOfKeys(path, repo_val, existing_val, Tail(keys)))

collect_changes(path, repo_val, existing_val, exists) ==
  IF is_dict(repo_val)
  THEN IF exists /\ ~is_dict(existing_val)
       THEN OneOverride(path, existing_val, repo_val)
       ELSE IF ~exists
       THEN [additions |-> collect_additions(path, repo_val), overrides |-> <<>>]
       ELSE ChangesOfKeys(path, repo_val, existing_val, Keys(repo_val))
  ELSE IF exists /\ is_dict(existing_val)
       THEN OneOverride(path, existing_val, repo_val)
       ELSE IF exists
       THEN IF existing_val # repo_val
            THEN OneOverride(path, existing_val, repo_val)
            ELSE NoChanges
       ELSE [additions |-> << [path |-> path, repo |-> repo_val] >>, overrides |-> <<>>]

\* install's loop over repo_data.items() (lines 247-251)
RECURSIVE InstallChanges(_, _, _)
InstallChanges(repo_data, existing_data, keys) ==
  IF keys = <<>> THEN NoChanges
  ELSE LET key == Head(keys)
           here == IF Has(existing_data, key)
                   THEN collect_changes(<<key>>, repo_data.m[key], existing_data.m[key], TRUE)
                   ELSE [additions |-> collect_additions(<<key>>, repo_data.m[key]),
                         overrides |-> <<>>]
       IN Join(here, InstallChanges(repo_data, existing_data, Tail(keys)))

(***************************************************************************)
(* path_get, path_set, path_delete                                         *)
(***************************************************************************)
RECURSIVE path_get(_, _)
path_get(data, path) ==
  IF path = <<>> THEN data
  ELSE IF ~is_dict(data) \/ ~Has(data, Head(path)) THEN None
  ELSE path_get(data.m[Head(path)], Tail(path))

RECURSIVE path_set(_, _, _)
path_set(data, path, value) ==
  IF Len(path) = 1 THEN Put(data, path[1], value)
  ELSE LET key == Head(path)
           child == IF ~Has(data, key) \/ ~is_dict(data.m[key])
                    THEN EmptyDict ELSE data.m[key]
       IN Put(data, key, path_set(child, Tail(path), value))

\* data with the entry at path removed (del current[path[-1]], line 202);
\* path must lead through dicts to an existing key
RECURSIVE DelAt(_, _)
DelAt(data, path) ==
  IF Len(path) = 1 THEN Del(data, path[1])
  ELSE Put(data, Head(path), DelAt(data.m[Head(path)], Tail(path)))

\* the walk of lines 195-201: every key of path[:-1] names a dict, and the
\* last key is in the dict reached
RECURSIVE Walkable(_, _)
Walkable(data, path) ==
  IF Len(path) = 1 THEN Has(data, path[1])
  ELSE /\ Has(data, Head(path))
       /\ is_dict(data.m[Head(path)])
       /\ Walkable(data.m[Head(path)], Tail(path))

\* PruneParents with the loop left after its first round
PruneParentsOnce(data, path, i) ==
  IF i = 0 THEN data
  ELSE LET child == path_get(data, SubSeq(path, 1, i))
       IN IF is_dict(child) /\ DOMAIN child.m = {}
          THEN DelAt(data, SubSeq(path, 1, i))
          ELSE data

\* the loop of lines 203-208 over reversed(parents): parents[i] holds the
\* dict at path[1..i-1] and the key path[i]
RECURSIVE PruneParents(_, _, _)
PruneParents(data, path, i) ==
  IF i = 0 THEN data
  ELSE LET child == path_get(data, SubSeq(path, 1, i))
       IN IF is_dict(child) /\ DOMAIN child.m = {}
          THEN PruneParents(DelAt(data, SubSeq(path, 1, i)), path, i - 1)
          ELSE data

path_delete(data, path) ==
  IF ~Walkable(data, path) THEN [ok |-> FALSE, data |-> data]
  ELSE [ok |-> TRUE, data |-> PruneParents(DelAt(data, path), path, Len(path) - 1)]

(***************************************************************************)
(* apply_opencode_permissions.  perms is the permission.skill mapping of   *)
(* the --opencode JSON file, or None when the flag is not given, the file  *)
(* does not exist, or the mapping is absent or empty (the three early      *)
(* returns).                                                               *)
(***************************************************************************)
RECURSIVE CopyPerms(_, _, _)
CopyPerms(skill, perms, keys) ==
  IF keys = <<>> THEN skill
  ELSE CopyPerms(Put(skill, Head(keys), perms.m[Head(keys)]), perms, Tail(keys))

apply_opencode_permissions(repo_data, perms) ==
  IF perms = None \/ DOMAIN perms.m = {} THEN repo_data
  ELSE LET permission == IF Has(repo_data, "permission") /\ is_dict(repo_data.m["permission"])
                         THEN repo_data.m["permission"] ELSE EmptyDict
           skill == IF Has(permission, "skill") /\ is_dict(permission.m["skill"])
                    THEN permission.m["skill"] ELSE EmptyDict
       IN Put(repo_data, "permission",
              Put(permission, "skill", CopyPerms(skill, perms, Keys(perms))))

(***************************************************************************)
(* The rollback loops of remove (lines 294-320).  Each returns the tree    *)
(* and the skipped count after the entries from the first on.  The path of *)
(* an entry install wrote is always a list (lines 299, 312).               *)
(***************************************************************************)
RECURSIVE RollbackOverrides(_, _, _)
\* RollbackOverrides restoring the previous value whatever the current one is
RollbackOverridesUnchecked(data, skipped, overrides) ==
  IF overrides = <<>> THEN [data |-> data, skipped |-> skipped]
  ELSE LET entry == Head(overrides)
           current == path_get(data, entry.path)
       IN IF current = None
          THEN RollbackOverrides(data, skipped, Tail(overrides))
          ELSE RollbackOverrides(path_set(data, entry.path, entry.previous),
                                 skipped, Tail(overrides))

RollbackOverrides(data, skipped, overrides) ==
  IF overrides = <<>> THEN [data |-> data, skipped |-> skipped]
  ELSE LET entry == Head(overrides)
           current == path_get(data, entry.path)
       IN IF current = None
          THEN RollbackOverrides(data, skipped, Tail(overrides))
          ELSE IF current = entry.repo
          THEN RollbackOverrides(path_set(data, entry.path, entry.previous),
                                 skipped, Tail(overrides))
          ELSE RollbackOverrides(data, skipped + 1, Tail(overrides))

RECURSIVE RollbackAdditions(_, _, _)
RollbackAdditions(data, skipped, additions) ==
  IF additions = <<>> THEN [data |-> data, skipped |-> skipped]
  ELSE LET entry == Head(additions)
           current == path_get(data, entry.path)
       IN IF current = None
          THEN RollbackAdditions(data, skipped, Tail(additions))
          ELSE IF current = entry.repo
          THEN RollbackAdditions(path_delete(data, entry.path).data,
                                 skipped, Tail(additions))
          ELSE RollbackAdditions(data, skipped + 1, Tail(additions))

\* overrides first, then additions, against the same tree
Rollback(data, config_state) ==
  LET o == RollbackOverrides(data, 0, config_state.overrides)
  IN RollbackAdditions(o.data, o.skipped, config_state.additions)

(***************************************************************************)
(* Input sets.  A document has keys a and b; a may hold a scalar or a      *)
(* table with keys x and y, b a scalar.  Deep documents let a.x hold a     *)
(* table with key c as well.  Tables may be empty.                         *)
(***************************************************************************)
Scalars == {Scalar(n) : n \in 1..MaxVal}
Tables(K, V) == UNION {{Table(f) : f \in [D -> V]} : D \in SUBSET K}
ScalarAt(t, key) == Has(t, key) => ~is_dict(t.m[key])
Level3 == Tables({"c"}, Scalars)
Level2 == Tables({"x", "y"}, Scalars)
Level2Deep == {t \in Tables({"x", "y"}, Scalars \cup Level3) : ScalarAt(t, "y")}
Docs == {t \in Tables({"a", "b"}, Scalars \cup Level2) : ScalarAt(t, "b")}
DeepDocs == {t \in Tables({"a", "b"}, Scalars \cup Level2Deep) : ScalarAt(t, "b")}
DeletePaths ==
  {<<k1>> : k1 \in {"a", "b"}}
    \cup {<<k1, k2>> : k1 \in {"a", "b"}, k2 \in {"x", "y"}}
    \cup {<<k1, k2, k3>> : k1 \in {"a", "b"}, k2 \in {"x", "y"}, k3 \in {"c", "x"}}
RepoHeaders == {<<>>, <<"# repo">>}
TargetHeaders == {<<>>, <<"# mine">>}

\* the paths of the scalar leaves of a tree
RECURSIVE LeafPathsFrom(_, _)
LeafPathsFrom(value, path) ==
  IF is_dict(value)
  THEN UNION {LeafPathsFrom(value.m[key], Append(path, key)) : key \in DOMAIN value.m}
  ELSE {path}
LeafPaths(data) == LeafPathsFrom(data, <<>>)

(***************************************************************************)
(* State.                                                                  *)
(*   repo     the --repo document: header lines and tree                   *)
(*   target   the --target file: whether it exists, header lines, tree     *)
(*   state    the --state file: whether it exists, and its "config" object *)
(*   pc       where the running install is: "idle" (none running),         *)
(*            "computed" (line 253 done), "target_written" (line 258 done);*)
(*            "arg" and "done" in the specifications of the pure functions *)
(*   pending  the locals of the running install                            *)
(*   hist     the operations finished so far, oldest first                 *)
(*   inst     the target before and after the latest finished install      *)
(*   last     the latest finished operation: its return code, skipped      *)
(*            count, and the target and state files as it found them       *)
(*   fin, fout  argument and result of the pure function applied           *)
(***************************************************************************)
VARIABLES repo, target, state, pc, pending, hist, inst, last, fin, fout
vars == <<repo, target, state, pc, pending, hist, inst, last, fin, fout>>

NoFile == [exists |-> FALSE, header |-> <<>>, data |-> EmptyDict]
File(header, data) == [exists |-> TRUE, header |-> header, data |-> data]
NoConfig == [had_config |-> FALSE, existing_header |-> <<>>,
             additions |-> <<>>, overrides |-> <<>>]
NoState == [exists |-> FALSE, config |-> NoConfig]
NoPending == [merged |-> EmptyDict, header |-> <<>>, config |-> NoConfig,
              before |-> NoFile, had_state |-> FALSE]
NoInst == [pre |-> NoFile, post |-> NoFile]
NoLast == [ret |-> 0, skipped |-> 0, before |-> NoFile, led |-> NoState]

Count(tag) == Cardinality({i \in 1..Len(hist) : hist[i] = tag})
Installs == Count("install") + Count("crash_computed") + Count("crash_written")
              + (IF pc = "idle" THEN 0 ELSE 1)

\* InstallHeader with the existing header taking priority
InstallHeaderExistingFirst(repo_header, existing_header) ==
  IF existing_header # <<>> THEN existing_header ELSE repo_header

\* line 256: the header install writes atop the merged document
InstallHeader(repo_header, existing_header) ==
  IF repo_header # <<>> THEN repo_header ELSE existing_header

(***************************************************************************)
(* install (lines 233-272) in its three steps: compute, write the target,  *)
(* write the state file.  It is run without --opencode.                    *)
(***************************************************************************)
InstallCompute ==
  /\ pc = "idle"
  /\ Installs < MaxInstalls
  /\ Count("remove") = 0
  /\ LET repo_data == apply_opencode_permissions(repo.data, None)
         had_config == target.exists
         existing_data == IF had_config THEN target.data ELSE EmptyDict
         existing_header == IF had_config THEN target.header ELSE <<>>
         changes == InstallChanges(repo_data, existing_data, Keys(repo_data))
         merged == merge_dicts(existing_data, repo_data)
         repo_header == repo.header
         header == InstallHeader(repo_header, existing_header)
     IN pending' = [merged |-> merged, header |-> header,
                    config |-> [had_config |-> had_config,
                                existing_header |-> existing_header,
                                additions |-> changes.additions,
                                overrides |-> changes.overrides],
                    before |-> target, had_state |-> state.exists]
  /\ pc' = "computed"
  /\ UNCHANGED <<repo, target, state, hist, inst, last, fin, fout>>

\* InstallWriteTarget with the state file written in the same step
InstallWriteTargetAndState ==
  /\ pc = "computed"
  /\ target' = File(pending.header, pending.merged)
  /\ state' = [exists |-> TRUE, config |-> pending.config]
  /\ pc' = "target_written"
  /\ UNCHANGED <<repo, pending, hist, inst, last, fin, fout>>

InstallWriteTarget ==
  /\ pc = "computed"
  /\ target' = File(pending.header, pending.merged)
  /\ pc' = "target_written"
  /\ UNCHANGED <<repo, state, pending, hist, inst, last, fin, fout>>

InstallWriteState ==
  /\ pc = "target_written"
  /\ state' = [exists |-> TRUE, config |-> pending.config]
  /\ pc' = "idle"
  /\ pending' = NoPending
  /\ hist' = Append(hist, "install")
  /\ inst' = [pre |-> pending.before, post |-> target]
  /\ last' = [ret |-> 0, skipped |-> 0, before |-> pending.before,
              led |-> [exists |-> pending.had_state, config |-> NoConfig]]
  /\ UNCHANGED <<repo, target, fin, fout>>

\* the install process stops between two of its steps
InstallCrash ==
  /\ pc \in {"computed", "target_written"}
  /\ pc' = "idle"
  /\ pending' = NoPending
  /\ hist' = Append(hist, IF pc = "computed" THEN "crash_computed" ELSE "crash_written")
  /\ last' = [ret |-> 1, skipped |-> 0, before |-> pending.before,
              led |-> [exists |-> pending.had_state, config |-> NoConfig]]
  /\ UNCHANGED <<repo, target, state, inst, fin, fout>>

(***************************************************************************)
(* remove (lines 275-333)                                                  *)
(***************************************************************************)
\* Disposal deleting the file whenever the tree is empty
DisposalDeletesEmpty(data, had_config, existing_header) ==
  IF data # EmptyDict THEN File(existing_header, data) ELSE NoFile

\* lines 322-328: what becomes of the target file
Disposal(data, had_config, existing_header) ==
  IF data # EmptyDict THEN File(existing_header, data)
  ELSE IF ~had_config THEN NoFile
  ELSE File(existing_header, data)

\* lines 276-278: no state file
RemoveNoState(target_file, state_file) ==
  [target |-> target_file, state |-> state_file, ret |-> 0, skipped |-> 0]

\* RemoveNoTarget returning before the state file is unlinked
RemoveNoTargetKeepsState(target_file, state_file) ==
  [target |-> target_file, state |-> state_file, ret |-> 0, skipped |-> 0]

\* lines 284-287: a state file, and no target file
RemoveNoTarget(target_file, state_file) ==
  [target |-> target_file, state |-> NoState, ret |-> 0, skipped |-> 0]

\* lines 289-333: both files exist
RemoveRollback(target_file, state_file) ==
  LET config_state == state_file.config
      r == Rollback(target_file.data, config_state)
  IN [target |-> Disposal(r.data, config_state.had_config, config_state.existing_header),
      state |-> NoState, ret |-> 0, skipped |-> r.skipped]

Remove ==
  /\ pc = "idle"
  /\ Count("remove") < MaxRemoves
  /\ LET r == IF ~state.exists THEN RemoveNoState(target, state)
              ELSE IF ~target.exists THEN RemoveNoTarget(target, state)
              ELSE RemoveRollback(target, state)
     IN /\ target' = r.target
        /\ state' = r.state
        /\ last' = [ret |-> r.ret, skipped |-> r.skipped, before |-> target, led |-> state]
  /\ hist' = Append(hist, "remove")
  /\ UNCHANGED <<repo, pc, pending, inst, fin, fout>>

(***************************************************************************)
(* The user, between install and remove: gives a scalar leaf of the target *)
(* of the target other scalar values, or deletes the target file.         *)
(***************************************************************************)
\* data with the scalar leaves at the paths of P set to the values f gives
RECURSIVE SetLeaves(_, _, _)
SetLeaves(data, P, f) ==
  IF P = {} THEN data
  ELSE LET path == CHOOSE q \in P : TRUE
       IN SetLeaves(path_set(data, path, Scalar(f[path])), P \ {path}, f)

UserEdit ==
  /\ pc = "idle"
  /\ state.exists /\ target.exists
  /\ Count("edit") < MaxEdits
  /\ \E P \in SUBSET LeafPaths(target.data) :
       /\ P # {} /\ <<>> \notin P
       /\ \E f \in [P -> 1..MaxVal] :
            /\ \A path \in P : path_get(target.data, path) # Scalar(f[path])
            /\ target' = [target EXCEPT !.data = SetLeaves(target.data, P, f)]
  /\ hist' = Append(hist, "edit")
  /\ UNCHANGED <<repo, state, pc, pending, inst, last, fin, fout>>

UserDelete ==
  /\ pc = "idle"
  /\ state.exists /\ target.exists
  /\ Count("delete") = 0
  /\ target' = NoFile
  /\ hist' = Append(hist, "delete")
  /\ UNCHANGED <<repo, state, pc, pending, inst, last, fin, fout>>

Init ==
  /\ repo \in [header : RepoHeaders, data : Docs]
  /\ target \in {NoFile} \cup {File(h, d) : h \in TargetHeaders, d \in Docs}
  /\ state = NoState
  /\ pc = "idle"
  /\ pending = NoPending
  /\ hist = <<>>
  /\ inst = NoInst
  /\ last = NoLast
  /\ fin = None
  /\ fout = None

Next ==
  \/ InstallCompute
  \/ InstallWriteTarget
  \/ InstallWriteState
  \/ InstallCrash
  \/ Remove
  \/ UserEdit
  \/ UserDelete

Spec == Init /\ [][Next]_vars

(***************************************************************************)
(* The differ and the merger as install applies them (lines 244-253), on   *)
(* every pair of deep documents.                                           *)
(***************************************************************************)
Idle ==
  /\ repo = [header |-> <<>>, data |-> EmptyDict]
  /\ target = NoFile
  /\ state = NoState
  /\ pending = NoPending
  /\ hist = <<>>
  /\ inst = NoInst
  /\ last = NoLast

InitDiff ==
  /\ Idle
  /\ pc = "arg"
  /\ fin \in [repo_data : DeepDocs, existing_data : DeepDocs]
  /\ fout = None

Diff ==
  /\ pc = "arg"
  /\ fout' = [changes |-> InstallChanges(fin.repo_data, fin.existing_data,
                                         Keys(fin.repo_data)),
              merged |-> merge_dicts(fin.existing_data, fin.repo_data)]
  /\ pc' = "done"
  /\ UNCHANGED <<repo, target, state, pending, hist, inst, last, fin>>

SpecDiff == InitDiff /\ [][Diff]_vars

(***************************************************************************)
(* path_delete on every deep document and path                             *)
(***************************************************************************)
InitDelete ==
  /\ Idle
  /\ pc = "arg"
  /\ fin \in [data : DeepDocs, path : DeletePaths]
  /\ fout = None

Delete ==
  /\ pc = "arg"
  /\ fout' = path_delete(fin.data, fin.path)
  /\ pc' = "done"
  /\ UNCHANGED <<repo, target, state, pending, hist, inst, last, fin>>

SpecDelete == InitDelete /\ [][Delete]_vars

(***************************************************************************)
(* Properties of the differ and the merger, under SpecDiff                 *)
(***************************************************************************)
KeyNames == {"a", "b", "c", "x", "y"}
AllPaths == {<<k1>> : k1 \in KeyNames}
              \cup {<<k1, k2>> : k1 \in KeyNames, k2 \in KeyNames}
              \cup {<<k1, k2, k3>> : k1 \in KeyNames, k2 \in KeyNames, k3 \in KeyNames}
IsPrefix(p, q) == Len(p) <= Len(q) /\ SubSeq(q, 1, Len(p)) = p

RECURSIVE ApplyEntries(_, _)
ApplyEntries(data, entries) ==
  IF entries = <<>> THEN data
  ELSE ApplyEntries(path_set(data, Head(entries).path, Head(entries).repo), Tail(entries))

\* C2: the existing tree with the repo value put at every recorded addition
\* path and every recorded override path is the tree merge_dicts returns.
MergeDiffAgreement ==
  pc = "done" =>
    ApplyEntries(ApplyEntries(fin.existing_data, fout.changes.additions),
                 fout.changes.overrides) = fout.merged

\* the repo tree has a table at path p where the existing tree has a scalar
TableOverScalar(p) ==
  /\ is_dict(path_get(fin.repo_data, p))
  /\ path_get(fin.existing_data, p).k = "s"

\* C4 as amended: where the repo tree has a table and the existing tree a
\* scalar, the differ records exactly one override, at that path, holding the
\* scalar as previous and the whole repo subtree as repo, and records no
\* addition at or under that path and no override under it.
TableOverScalarIsOneOverride ==
  pc = "done" =>
    \A p \in AllPaths : TableOverScalar(p) =>
      LET ov == fout.changes.overrides
          ad == fout.changes.additions
      IN /\ Cardinality({i \in DOMAIN ov : ov[i].path = p}) = 1
         /\ \A i \in DOMAIN ov : ov[i].path = p =>
              /\ ov[i].previous = path_get(fin.existing_data, p)
              /\ ov[i].repo = path_get(fin.repo_data, p)
         /\ \A i \in DOMAIN ov : IsPrefix(p, ov[i].path) => ov[i].path = p
         /\ \A i \in DOMAIN ad : ~IsPrefix(p, ad[i].path)

\* a repo table of two leaves or more over an existing scalar, diffed
TableOverScalarDiffed ==
  /\ pc = "done"
  /\ \E p \in AllPaths :
       /\ TableOverScalar(p)
       /\ Cardinality(LeafPaths(path_get(fin.repo_data, p))) >= 2
       /\ \E i \in DOMAIN fout.changes.overrides : fout.changes.overrides[i].path = p

\* C4: where the repo tree has a table and the existing tree a scalar, every
\* leaf of the repo subtree is recorded as an addition and no override is
\* recorded at that path or under it.
TableOverScalarIsAdditions ==
  pc = "done" =>
    \A p \in AllPaths : TableOverScalar(p) =>
      LET ov == fout.changes.overrides
          ad == fout.changes.additions
          sub == path_get(fin.repo_data, p)
      IN /\ \A q \in LeafPaths(sub) :
              \E i \in DOMAIN ad : /\ ad[i].path = p \o q
                                   /\ ad[i].repo = path_get(sub, q)
         /\ \A i \in DOMAIN ov : ~IsPrefix(p, ov[i].path)

(***************************************************************************)
(* Properties of path_delete, under SpecDelete                             *)
(***************************************************************************)
\* from the table at path[1..i] down to the parent of the entry, each table
\* of tree holds the next key of path and nothing else
OnlyChain(tree, path, i) ==
  \A j \in i..(Len(path) - 1) :
    DOMAIN path_get(tree, SubSeq(path, 1, j)).m = {path[j + 1]}

\* C6: path_delete of a path that does not exist returns False and leaves the
\* tree as it was; of a path that exists it returns True, the entry is gone,
\* an ancestor table on the path is gone exactly when the deletion left it
\* and every table between it and the entry empty, every other ancestor is
\* still a table, and every path that leaves the deleted path holds what it
\* held.
DeletePrunes ==
  pc = "done" =>
    LET tree == fin.data
        path == fin.path
    IN IF path_get(tree, path) = None
       THEN ~fout.ok /\ fout.data = tree
       ELSE /\ fout.ok
            /\ path_get(fout.data, path) = None
            /\ \A i \in 1..(Len(path) - 1) :
                 LET after == path_get(fout.data, SubSeq(path, 1, i))
                 IN IF OnlyChain(tree, path, i) THEN after = None ELSE is_dict(after)
            /\ \A q \in AllPaths :
                 (~IsPrefix(q, path) /\ ~IsPrefix(path, q)) =>
                    path_get(fout.data, q) = path_get(tree, q)

\* the sole entry a.x.c deleted, and the tables a.x and a pruned with it,
\* beside a key b that stays
DeletedWithPruning ==
  /\ pc = "done"
  /\ fin.path = <<"a", "x", "c">>
  /\ fout.ok
  /\ OnlyChain(fin.data, fin.path, 1)
  /\ ~Has(fout.data, "a")
  /\ Has(fout.data, "b")

(***************************************************************************)
(* Properties of install and remove, under Spec                            *)
(***************************************************************************)
\* the operations finished last are those of suffix, in that order
Ends(suffix) ==
  /\ Len(hist) >= Len(suffix)
  /\ SubSeq(hist, Len(hist) - Len(suffix) + 1, Len(hist)) = suffix
LastOp == IF hist = <<>> THEN "none" ELSE hist[Len(hist)]

\* the latest operations are a finished install, one user edit or more, and
\* a remove
EditedThenRemoved ==
  LET n == Len(hist)
  IN /\ n >= 3
     /\ hist[n] = "remove"
     /\ hist[n - 1] = "edit"
     /\ \E j \in 1..(n - 2) :
          /\ hist[j] = "install"
          /\ \A i \in (j + 1)..(n - 1) : hist[i] = "edit"

\* C1: install, then remove with nothing in between, leaves the target tree
\* as it was before install, or no target file if there was none, and skips
\* nothing.
RoundTrip ==
  Ends(<<"install", "remove">>) =>
    /\ target.exists = inst.pre.exists
    /\ target.data = inst.pre.data
    /\ last.skipped = 0

\* the leaves of the merged document the user gave another value
ChangedLeaves ==
  {p \in LeafPaths(inst.post.data) :
     path_get(last.before.data, p) # path_get(inst.post.data, p)}
\* the entries of a ledger list whose path no longer holds the repo value
Drifted(entries) ==
  {i \in DOMAIN entries : path_get(last.before.data, entries[i].path) # entries[i].repo}

\* C3 as amended: after user edits of merged leaves, remove leaves every
\* changed leaf with the user's value, and the skipped count is the number of
\* ledger entries, overrides and additions, whose path no longer holds the
\* recorded repo value.
DriftCountsEntries ==
  EditedThenRemoved =>
    /\ \A p \in ChangedLeaves : path_get(target.data, p) = path_get(last.before.data, p)
    /\ last.skipped = Cardinality(Drifted(last.led.config.overrides))
                        + Cardinality(Drifted(last.led.config.additions))

\* two changed leaves inside a repo subtree recorded as one override, skipped
\* as one
DriftInsideOverride ==
  /\ EditedThenRemoved
  /\ last.skipped = 1
  /\ \E i \in DOMAIN last.led.config.overrides :
       LET entry == last.led.config.overrides[i]
       IN /\ is_dict(entry.repo)
          /\ Cardinality({p \in ChangedLeaves : IsPrefix(entry.path, p)}) >= 2

\* C3: after user edits of merged leaves, remove leaves every changed leaf
\* with the user's value, and the skipped count is the number of changed
\* leaves.
DriftCountsLeaves ==
  EditedThenRemoved =>
    /\ \A p \in ChangedLeaves : path_get(target.data, p) = path_get(last.before.data, p)
    /\ last.skipped = Cardinality(ChangedLeaves)

\* remove ran its rollback pass and rewrote the target
Rewritten ==
  /\ LastOp = "remove"
  /\ last.led.exists
  /\ last.before.exists
  /\ target.exists

\* C5 as amended: install writes the repo header atop the merged document when
\* the repo document has one and the pre-existing target's header otherwise;
\* remove writes the pre-existing target's header, the one the ledger holds
\* (no header when no target existed before install).
RemoveRestoresExistingHeader ==
  /\ (pc = "idle" /\ LastOp = "install") =>
       target.header = (IF repo.header # <<>> THEN repo.header ELSE inst.pre.header)
  /\ Rewritten => target.header = inst.pre.header

\* remove wrote the target's own old header where install had written the
\* repo's
ExistingHeaderRestored ==
  /\ Rewritten
  /\ inst.post.header = <<"# repo">>
  /\ target.header = <<"# mine">>

\* C5: the header remove writes is the header install wrote, the repo's when
\* the repo document has one and the pre-existing target's otherwise.
RemoveKeepsInstallHeader ==
  Rewritten =>
    /\ target.header = inst.post.header
    /\ target.header = (IF repo.header # <<>> THEN repo.header ELSE inst.pre.header)

\* C7: a remove that finds a state file returns 0 and leaves none, whether
\* or not it skipped entries or found the target missing; a remove after a
\* remove finds no state file, returns 0 and changes neither file.
LedgerConsumed ==
  /\ (LastOp = "remove" /\ last.led.exists) => (last.ret = 0 /\ ~state.exists)
  /\ Ends(<<"remove", "remove">>) =>
       /\ ~last.led.exists
       /\ last.ret = 0
       /\ target = last.before
       /\ state = last.led

\* a remove that skipped drifted entries and left no state file
ConsumedAfterSkip ==
  /\ Ends(<<"edit", "remove">>)
  /\ last.led.exists
  /\ last.skipped > 0
  /\ ~state.exists

\* C8: remove deletes the target exactly when the ledger says no target
\* existed before install and the tree left by the rollback is empty;
\* otherwise it rewrites the target with that tree.
TargetDisposal ==
  (LastOp = "remove" /\ last.led.exists /\ last.before.exists) =>
    LET left == Rollback(last.before.data, last.led.config).data
    IN /\ ~target.exists <=> (~last.led.config.had_config /\ left = EmptyDict)
       /\ target.exists => target.data = left

\* an emptied tree rewritten as an empty document because a target existed
\* before install
EmptyTargetRewritten ==
  /\ LastOp = "remove" /\ last.led.exists /\ last.before.exists
  /\ last.before.data # EmptyDict
  /\ last.led.config.had_config
  /\ target.exists
  /\ target.data = EmptyDict

\* a crash after the target write, with no state file, has happened and only
\* removes have run since
RemovedAfterCrash ==
  /\ LastOp = "remove"
  /\ \E j \in 1..(Len(hist) - 1) :
       /\ hist[j] = "crash_written"
       /\ \A i \in 1..(j - 1) : hist[i] # "install"
       /\ \A i \in (j + 1)..Len(hist) : hist[i] = "remove"

\* C9: with no state file at the start, an install that stops before the
\* target write leaves the target as it was and no state file; one that stops
\* after it leaves the merged document and no state file, and each remove
\* after that returns 0 and leaves the target as it is.
CrashWindows ==
  /\ (pc = "idle" /\ LastOp = "crash_computed" /\ ~last.led.exists) =>
       (target = last.before /\ ~state.exists)
  /\ (pc = "idle" /\ LastOp = "crash_written" /\ ~last.led.exists) =>
       /\ ~state.exists
       /\ target.exists
       /\ target.data = merge_dicts(last.before.data, repo.data)
  /\ RemovedAfterCrash =>
       /\ last.ret = 0
       /\ ~state.exists
       /\ target = last.before

\* the merged document of an install that stopped before the state write,
\* still there after a remove
MergedSurvivesRemove ==
  /\ hist = <<"crash_written", "remove">>
  /\ target.exists
  /\ target.data = repo.data
  /\ repo.data # EmptyDict

\* C10: a second install of the same repo tree, right after the first, leaves
\* the target tree as the first left it and writes a ledger with no additions,
\* no overrides and had_config true; the remove after it leaves the target
\* tree unchanged.
ReinstallIdempotent ==
  /\ (pc = "idle" /\ Ends(<<"install", "install">>)) =>
       /\ target.data = inst.pre.data
       /\ state.exists
       /\ state.config.additions = <<>>
       /\ state.config.overrides = <<>>
       /\ state.config.had_config
  /\ Ends(<<"install", "install", "remove">>) =>
       /\ target.exists
       /\ target.data = last.before.data
       /\ target.data = inst.pre.data

\* install, install, remove over a document the first install both added to
\* and kept keys of
ReinstalledThenRemoved ==
  /\ Ends(<<"install", "install", "remove">>)
  /\ target.exists
  /\ Cardinality(LeafPaths(target.data)) >= 2
  /\ target.data # repo.data
====
